---- MODULE Spec2Model ----
(***************************************************************************)
(* Model of paasta_tools/check_flink_services_health.py: the Flink health  *)
(* check that compares healthy / registered container counts against the   *)
(* replication threshold, joins the four sub-check results and sends one   *)
(* replication event.                                                      *)
(*                                                                         *)
(* Text is modelled as a sequence of string tokens; an integer formatted   *)
(* by an f-string becomes its decimal digits (see Str).                    *)
(***************************************************************************)
EXTENDS Integers, Sequences, FiniteSets, TLC

(* ---------------------------------------------------------------- bounds *)
\* largest replica count drawn for expected / observed counts
MaxCount == 2
\* longest pod list handed to the check
MaxPods == 2
\* longest verdict sequence handed to the aggregation
MaxVerdicts == 3
\* most apps marathon runs when the cleanup lists them
MaxApps == 2
\* most rows a Splunk export answers with
MaxRows == 2

(* ------------------------------------------------------ program constants *)
\* default of config_dict["taskmanager"]["instances"]
DefaultTaskmanagerInstances == 10
\* default of overview.get("taskmanagers", 0)
DefaultReported == 0
\* a pod must be alive strictly longer than this many seconds
MinLifetimeSeconds == 60

DELIMITER == "\n########\n"

(* ------------------------------------------------------------- input sets *)
\* counts a caller or the dashboard can hand over, invalid (-1) included
Counts == -1 .. MaxCount
\* replication_crit_percentage values, out-of-range ones included
Thresholds == {-1, 0, 50, 100, 101}

\* a python dict with string keys is a function on the keys present
EmptyDict == [k \in {} |-> 0]

DictGet(d, k, default) == IF k \in DOMAIN d THEN d[k] ELSE default

\* config_dict of a FlinkDeploymentConfig: "taskmanager" may be absent, and
\* its "instances" may be absent
ConfigDicts ==
    {EmptyDict}
      \cup {[k \in {"taskmanager"} |-> EmptyDict]}
      \cup {[k \in {"taskmanager"} |-> [j \in {"instances"} |-> n]] : n \in Counts}

InstanceConfigs ==
    [service : {"svcA"}, instance : {"main"}, cluster : {"c1"},
     crit : Thresholds, config_dict : ConfigDicts]

\* what flink_tools.get_flink_jobmanager_overview does: raise ValueError or
\* return the overview dict, with or without the key "taskmanagers"
Dashboards ==
    {[kind |-> "ValueError", overview |-> EmptyDict]}
      \cup {[kind |-> "ok", overview |-> EmptyDict]}
      \cup {[kind |-> "ok", overview |-> [k \in {"taskmanagers"} |-> n]] : n \in Counts}

(* ------------------------------------------------------------- formatting *)
DigitChar == <<"0", "1", "2", "3", "4", "5", "6", "7", "8", "9">>

RECURSIVE Str(_)
Str(n) ==
    IF n < 0 THEN <<"-">> \o Str(-n)
    ELSE IF n < 10 THEN <<DigitChar[n + 1]>>
    ELSE Str(n \div 10) \o <<DigitChar[(n % 10) + 1]>>

job_id(ic) == <<ic.service, ".", ic.instance>>

get_replication_crit_percentage(ic) == ic.crit

(* ------------------------------------------------------------ evaluation *)
NoVerdict == [raised |-> "InvalidArgument", unhealthy |-> FALSE, output |-> <<>>]

Verdict(b, msg) == [raised |-> "", unhealthy |-> b, output |-> msg]

ValidObservation(num_available, expected_count, crit_threshold) ==
    /\ expected_count >= 0
    /\ num_available >= 0
    /\ crit_threshold >= 0
    /\ crit_threshold <= 100

\* percent available as a fraction <<numerator, denominator>>
PercentAvailable(num_available, expected_count) ==
    IF expected_count = 0 THEN <<100, 1>>
    ELSE <<num_available * 100, expected_count>>

\* paasta_tools.utils.is_under_replicated: [raised, under]
is_under_replicated(num_available, expected_count, crit_threshold) ==
    IF ~ValidObservation(num_available, expected_count, crit_threshold)
    THEN [raised |-> "InvalidArgument", under |-> FALSE]
    ELSE LET p == PercentAvailable(num_available, expected_count)
         IN  [raised |-> "", under |-> p[1] < crit_threshold * p[2]]

\* text of the ValueError raised by get_flink_jobmanager_overview, or of
\* whatever other exception the handler is made to catch
ErrText(exc) == <<"error: ", exc>>

\* the verdict defaulting to healthy before the fetch
InitialUnhealthy_Healthy == FALSE

\* line 68: the verdict before anything has been fetched
InitialUnhealthy == TRUE

\* line 73: overview.get("taskmanagers", 0)
NumReported(overview) == DictGet(overview, "taskmanagers", DefaultReported)

\* lines 75-80
ReportedOutput(ic, num_reported, expected_count, crit_threshold) ==
    <<"Service ">> \o job_id(ic) \o <<" has ">> \o Str(num_reported)
      \o <<" out of ">> \o Str(expected_count)
      \o <<" expected instances of taskmanager reported by dashboard!\n(threshold: ">>
      \o Str(crit_threshold) \o <<"%)">>

\* the first two arguments of the call exchanged
RegisteredUnderReplicated_SwappedArgs(num_reported, expected_count, crit_threshold) ==
    is_under_replicated(expected_count, num_reported, crit_threshold)

\* the returned boolean dropped, so that the verdict stays at its default
RegisteredUnderReplicated_Discarded(num_reported, expected_count, crit_threshold) ==
    [is_under_replicated(num_reported, expected_count, crit_threshold)
        EXCEPT !.under = TRUE]

\* line 81: is_under_replicated(num_reported, expected_count, crit_threshold)
RegisteredUnderReplicated(num_reported, expected_count, crit_threshold) ==
    is_under_replicated(num_reported, expected_count, crit_threshold)

\* a handler that catches every exception
CaughtByHandler_AnyException(exc) == TRUE

\* line 82: except ValueError
CaughtByHandler(exc) == exc = "ValueError"

\* lines 83-85
UnavailableOutput(ic, exc) ==
    <<"Dashboard of service ">> \o job_id(ic) \o <<" is not available!\n(">>
      \o ErrText(exc) \o <<")">>

\* lines 87-104
AlertHelp(ic) ==
    <<"\nWhat this alert means: ... paasta status -s ", ic.service, " -i ",
      ic.instance, " -c ", ic.cluster, " -vv\n\n">>

\* lines 69-81: the body of the try block
TryBlock(ic, expected_count, dash) ==
    IF dash.kind = "ValueError"
    THEN [raised |-> "ValueError", unhealthy |-> InitialUnhealthy, output |-> <<>>]
    ELSE LET num_reported == NumReported(dash.overview)
             crit_threshold == get_replication_crit_percentage(ic)
             r == RegisteredUnderReplicated(num_reported, expected_count, crit_threshold)
         IN  IF r.raised # ""
             THEN [raised |-> r.raised, unhealthy |-> InitialUnhealthy, output |-> <<>>]
             ELSE Verdict(r.under,
                          ReportedOutput(ic, num_reported, expected_count, crit_threshold))

\* lines 61-105
check_under_registered_taskmanagers(ic, expected_count, dash) ==
    LET tried == TryBlock(ic, expected_count, dash)
        handled ==
            IF tried.raised = "" THEN tried
            ELSE IF CaughtByHandler(tried.raised)
                 THEN Verdict(InitialUnhealthy, UnavailableOutput(ic, tried.raised))
                 ELSE [raised |-> tried.raised, unhealthy |-> FALSE, output |-> <<>>]
    IN  IF handled.raised # "" THEN handled
        ELSE IF handled.unhealthy
             THEN Verdict(TRUE, handled.output \o AlertHelp(ic))
             ELSE handled

\* paasta_tools.monitoring_tools.check_under_replication
check_under_replication(ic, expected_count, num_available, sub_component) ==
    LET crit_threshold == get_replication_crit_percentage(ic)
        r == is_under_replicated(num_available, expected_count, crit_threshold)
    IN  IF r.raised # ""
        THEN [raised |-> r.raised, unhealthy |-> FALSE, output |-> <<>>]
        ELSE Verdict(r.under,
                     <<"Service ">> \o job_id(ic) \o <<" has ">> \o Str(num_available)
                       \o <<" out of ">> \o Str(expected_count)
                       \o <<" expected instances of ", sub_component, " (threshold: ">>
                       \o Str(crit_threshold) \o <<"%)">>)

(* ------------------------------------------------------------------ pods *)
ContainerTypes == {"supervisor", "jobmanager", "taskmanager"}

\* pods of the cluster: those of another service are all alike to this check
Pods ==
    {p \in [service : {"svcA", "svcB"}, type : ContainerTypes, ready : BOOLEAN,
            lifetime : {MinLifetimeSeconds, MinLifetimeSeconds + 1}] :
        /\ p.service = "svcB" =>
              p.type = "taskmanager" /\ p.ready /\ p.lifetime > MinLifetimeSeconds
        /\ ~p.ready => p.lifetime > MinLifetimeSeconds}

SeqsUpTo(S, n) == UNION {[1 .. k -> S] : k \in 0 .. n}

RECURSIVE SelectPods(_, _, _)
\* the sub-sequence of pods of the given service
SelectPods(pods, i, service) ==
    IF i > Len(pods) THEN <<>>
    ELSE (IF pods[i].service = service THEN <<pods[i]>> ELSE <<>>)
           \o SelectPods(pods, i + 1, service)

\* paasta_tools.kubernetes_tools.filter_pods_by_service_instance
filter_pods_by_service_instance(pod_list, service, instance) ==
    SelectPods(pod_list, 1, service)

is_pod_ready(pod) == pod.ready

\* lines 40-44, in seconds
container_lifetime(pod) == pod.lifetime

\* a pod alive exactly the minimum counted as healthy
healthy_flink_containers_cnt_AtLeastMinimum(si_pods, container_type) ==
    Cardinality({i \in 1 .. Len(si_pods) :
                    /\ si_pods[i].type = container_type
                    /\ is_pod_ready(si_pods[i])
                    /\ container_lifetime(si_pods[i]) >= MinLifetimeSeconds})

\* lines 47-58
healthy_flink_containers_cnt(si_pods, container_type) ==
    Cardinality({i \in 1 .. Len(si_pods) :
                    /\ si_pods[i].type = container_type
                    /\ is_pod_ready(si_pods[i])
                    /\ container_lifetime(si_pods[i]) > MinLifetimeSeconds})

\* lines 118-120
taskmanagers_expected_cnt(ic) ==
    DictGet(DictGet(ic.config_dict, "taskmanager",
                    [j \in {"instances"} |-> DefaultTaskmanagerInstances]),
            "instances", DefaultTaskmanagerInstances)

(* ----------------------------------------------------------- aggregation *)
RECURSIVE Join(_, _)
\* str.join: the items in order with the separator between neighbours
Join(sep, items) ==
    IF Len(items) = 0 THEN <<>>
    ELSE IF Len(items) = 1 THEN items[1]
    ELSE items[1] \o <<sep>> \o Join(sep, Tail(items))

\* the messages joined last to first
JoinOutput_Reversed(rs) ==
    Join(DELIMITER, [i \in 1 .. Len(rs) |-> rs[Len(rs) + 1 - i].output])

\* line 148: "\n########\n".join([r[1] for r in results])
JoinOutput(rs) == Join(DELIMITER, [i \in 1 .. Len(rs) |-> rs[i].output])

\* all() in place of any()
AnyUnhealthy_All(rs) == \A i \in 1 .. Len(rs) : rs[i].unhealthy

\* the first result left out of the disjunction
AnyUnhealthy_SkipsFirst(rs) == \E i \in 2 .. Len(rs) : rs[i].unhealthy

\* line 149: any(r[0] for r in results)
AnyUnhealthy(rs) == \E i \in 1 .. Len(rs) : rs[i].unhealthy

\* the two statuses exchanged
StatusOf_Exchanged(rs) == IF AnyUnhealthy(rs) THEN "OK" ELSE "CRITICAL"

\* lines 149-154
StatusOf(rs) == IF AnyUnhealthy(rs) THEN "CRITICAL" ELSE "OK"

\* lines 148-149 as one verdict
Aggregate(rs) == Verdict(AnyUnhealthy(rs), JoinOutput(rs))

(* ------------------------------------------------- the other programs *)
\* cleanup_apps before it has been called, with nothing configured or running
NoCleanup ==
    [pc |-> "start", soa |-> {}, marathon |-> {}, valid_app_list |-> {},
     app_ids |-> <<>>, idx |-> 1, held |-> <<>>, bouncing |-> {}, calls |-> <<>>,
     skipped |-> {}, examined |-> <<>>, exc |-> "", raised |-> ""]

\* healthy_flink_containers_cnt before it has been called
NoCount == [called |-> FALSE, si_pods |-> <<>>, cnt |-> [t \in {} |-> 0]]

\* the rightsizing tool before it has been started
NoRightsize ==
    [pc |-> "idle", args |-> [ticket |-> FALSE, jira_creds |-> FALSE,
                              cpu_report_csv |-> FALSE, mem_report_csv |-> FALSE,
                              bulk |-> FALSE, YELPSOA_DIR |-> FALSE],
     cpu_resp |-> <<>>, mem_resp |-> <<>>, cpu_report |-> <<>>, mem_report |-> <<>>,
     combined_report |-> <<>>, log |-> <<>>, raised |-> ""]

(* ------------------------------------------------------------------ state *)
VARIABLES
    pc,        \* position of check_flink_service_health
    ic,        \* its instance_config
    all_pods,  \* its all_pods
    dash,      \* what the dashboard answers during this invocation
    locals,    \* lines 113-123: expected and healthy counts
    results,   \* the sub-check verdicts evaluated so far (lines 125-147)
    raised,    \* the exception that left check_flink_service_health, or ""
    events,    \* what send_replication_event has been handed
    eval,      \* last call of check_under_registered_taskmanagers on its own
    agg,       \* last aggregation of a verdict sequence on its own
    cl,        \* cleanup_apps: its position, its lists, the bounce locks, marathon
    hc,        \* last call of healthy_flink_containers_cnt on its own
    rz         \* main of the rightsizing tool: its position, reports, external calls

vars == <<pc, ic, all_pods, dash, locals, results, raised, events, eval, agg, cl, hc, rz>>

checkVars == <<pc, ic, all_pods, dash, locals, results, raised, events>>

NoLocals == [expected |-> 0, supervisors |-> 0, jobmanagers |-> 0, taskmanagers |-> 0]

NoConfig == [service |-> "svcA", instance |-> "main", cluster |-> "c1",
             crit |-> 0, config_dict |-> EmptyDict]

NoDash == [kind |-> "ok", overview |-> EmptyDict]

Init ==
    /\ pc = "idle"
    /\ ic = NoConfig
    /\ all_pods = <<>>
    /\ dash = NoDash
    /\ locals = NoLocals
    /\ results = <<>>
    /\ raised = ""
    /\ events = <<>>
    /\ eval = [called |-> FALSE, ic |-> NoConfig, expected_count |-> 0,
               dash |-> NoDash, out |-> Verdict(FALSE, <<>>)]
    /\ agg = [called |-> FALSE, verdicts |-> <<>>, cut1 |-> 0, cut2 |-> 0,
              whole |-> Verdict(FALSE, <<>>), grouped |-> Verdict(FALSE, <<>>)]
    /\ cl = NoCleanup
    /\ hc = NoCount
    /\ rz = NoRightsize

(* ------------------------------------------- check_flink_service_health *)
\* the monitoring loop calls check_flink_service_health(instance_config, all_pods, _)
Invoke ==
    /\ pc = "idle"
    /\ \E c \in InstanceConfigs, ps \in SeqsUpTo(Pods, MaxPods), d \in Dashboards :
          /\ ic' = c
          /\ all_pods' = ps
          /\ dash' = d
    /\ pc' = "count"
    /\ UNCHANGED <<locals, results, raised, events, eval, agg, cl, hc, rz>>

\* lines 113-123
CountPods ==
    /\ pc = "count"
    /\ LET si_pods == filter_pods_by_service_instance(all_pods, ic.service, ic.instance)
       IN  locals' = [expected |-> taskmanagers_expected_cnt(ic),
                      supervisors |-> healthy_flink_containers_cnt(si_pods, "supervisor"),
                      jobmanagers |-> healthy_flink_containers_cnt(si_pods, "jobmanager"),
                      taskmanagers |-> healthy_flink_containers_cnt(si_pods, "taskmanager")]
    /\ pc' = "supervisor"
    /\ UNCHANGED <<ic, all_pods, dash, results, raised, events, eval, agg, cl, hc, rz>>

\* one element of the list literal of lines 125-147 has been evaluated to v
Evaluated(v, next) ==
    IF v.raised # ""
    THEN /\ raised' = v.raised
         /\ pc' = "raised"
         /\ UNCHANGED results
    ELSE /\ results' = Append(results, v)
         /\ pc' = next
         /\ UNCHANGED raised

\* lines 126-131
CheckSupervisor ==
    /\ pc = "supervisor"
    /\ Evaluated(check_under_replication(ic, 1, locals.supervisors, "supervisor"),
                 "jobmanager")
    /\ UNCHANGED <<ic, all_pods, dash, locals, events, eval, agg, cl, hc, rz>>

\* lines 132-137
CheckJobmanager ==
    /\ pc = "jobmanager"
    /\ Evaluated(check_under_replication(ic, 1, locals.jobmanagers, "jobmanager"),
                 "taskmanager")
    /\ UNCHANGED <<ic, all_pods, dash, locals, events, eval, agg, cl, hc, rz>>

\* lines 138-143
CheckTaskmanager ==
    /\ pc = "taskmanager"
    /\ Evaluated(check_under_replication(ic, locals.expected, locals.taskmanagers,
                                         "taskmanager"),
                 "registered")
    /\ UNCHANGED <<ic, all_pods, dash, locals, events, eval, agg, cl, hc, rz>>

\* lines 144-146
CheckRegistered ==
    /\ pc = "registered"
    /\ Evaluated(check_under_registered_taskmanagers(ic, locals.expected, dash), "send")
    /\ UNCHANGED <<ic, all_pods, dash, locals, events, eval, agg, cl, hc, rz>>

\* paasta_tools.monitoring_tools.send_replication_event
send_replication_event(sink, status, output) ==
    Append(sink, [status |-> status, output |-> output])

\* lines 148-157
SendEvent ==
    /\ pc = "send"
    /\ events' = send_replication_event(events, StatusOf(results), JoinOutput(results))
    /\ pc' = "done"
    /\ UNCHANGED <<ic, all_pods, dash, locals, results, raised, eval, agg, cl, hc, rz>>

Next ==
    \/ Invoke
    \/ CountPods
    \/ CheckSupervisor
    \/ CheckJobmanager
    \/ CheckTaskmanager
    \/ CheckRegistered
    \/ SendEvent

Spec == Init /\ [][Next]_vars

(* --------------------------- check_under_registered_taskmanagers alone *)
\* a caller is about to hand over any instance_config and expected_count
InitEval ==
    /\ pc = "idle"
    /\ ic = NoConfig
    /\ all_pods = <<>>
    /\ dash = NoDash
    /\ locals = NoLocals
    /\ results = <<>>
    /\ raised = ""
    /\ events = <<>>
    /\ eval \in [called : {FALSE}, ic : InstanceConfigs, expected_count : Counts,
                 dash : Dashboards, out : {Verdict(FALSE, <<>>)}]
    /\ agg = [called |-> FALSE, verdicts |-> <<>>, cut1 |-> 0, cut2 |-> 0,
              whole |-> Verdict(FALSE, <<>>), grouped |-> Verdict(FALSE, <<>>)]
    /\ cl = NoCleanup
    /\ hc = NoCount
    /\ rz = NoRightsize

\* lines 61-105
EvalCall ==
    /\ ~eval.called
    /\ eval' = [eval EXCEPT !.called = TRUE,
                            !.out = check_under_registered_taskmanagers(
                                        eval.ic, eval.expected_count, eval.dash)]
    /\ UNCHANGED <<checkVars, agg, cl, hc, rz>>

NextEval == EvalCall

SpecEval == InitEval /\ [][NextEval]_vars

(* ------------------------------------------------- the aggregation alone *)
Messages == {<<"a">>, <<"b", "c">>}

Verdicts == {Verdict(b, m) : b \in BOOLEAN, m \in Messages}

\* a verdict sequence and two cuts that split it into the three consecutive
\* groups 1..cut1, cut1+1..cut2, cut2+1..Len
AggInputs ==
    {a \in [called : {FALSE}, verdicts : SeqsUpTo(Verdicts, MaxVerdicts),
            cut1 : 0 .. MaxVerdicts, cut2 : 0 .. MaxVerdicts,
            whole : {Verdict(FALSE, <<>>)}, grouped : {Verdict(FALSE, <<>>)}] :
        a.cut1 <= a.cut2 /\ a.cut2 <= Len(a.verdicts)}

InitAgg ==
    /\ pc = "idle"
    /\ ic = NoConfig
    /\ all_pods = <<>>
    /\ dash = NoDash
    /\ locals = NoLocals
    /\ results = <<>>
    /\ raised = ""
    /\ events = <<>>
    /\ eval = [called |-> FALSE, ic |-> NoConfig, expected_count |-> 0,
               dash |-> NoDash, out |-> Verdict(FALSE, <<>>)]
    /\ agg \in AggInputs
    /\ cl = NoCleanup
    /\ hc = NoCount
    /\ rz = NoRightsize

Group(a, k) ==
    IF k = 1 THEN SubSeq(a.verdicts, 1, a.cut1)
    ELSE IF k = 2 THEN SubSeq(a.verdicts, a.cut1 + 1, a.cut2)
    ELSE SubSeq(a.verdicts, a.cut2 + 1, Len(a.verdicts))

\* lines 148-149 applied to the whole sequence, and to the aggregates of its groups
AggCall ==
    /\ ~agg.called
    /\ agg' = [agg EXCEPT !.called = TRUE,
                          !.whole = Aggregate(agg.verdicts),
                          !.grouped = Aggregate(<<Aggregate(Group(agg, 1)),
                                                  Aggregate(Group(agg, 2)),
                                                  Aggregate(Group(agg, 3))>>)]
    /\ UNCHANGED <<checkVars, eval, cl, hc, rz>>

NextAgg == AggCall

SpecAgg == InitAgg /\ [][NextAgg]_vars

(* ---------------------------------------------------------- cleanup_apps *)
\* a job id is its components, which ID_SPACER separates in the text
Services == {"svc"}

Instances == {"main", "canary"}

Iterations == {"v1", "v2"}

\* what get_marathon_services_for_cluster(include_iteration=True) can return
ServiceTriples == Services \X Instances \X Iterations

\* marathon_tools.compose_job_id
compose_job_id(service, instance, iteration) == <<service, instance, iteration>>

\* marathon_tools.remove_iteration_from_job_id
remove_iteration_from_job_id(app_id) == SubSeq(app_id, 1, Len(app_id) - 1)

\* every id an app of marathon can have
AppIds == {compose_job_id(t[1], t[2], t[3]) : t \in ServiceTriples}

\* the orders in which client.list_apps() can return the apps of marathon,
\* whose ids are unique
Listings(apps) ==
    {l \in [1 .. Cardinality(apps) -> apps] : \A i, j \in DOMAIN l : i # j => l[i] # l[j]}

\* the soa configs and marathon as cleanup_apps finds them
InitCleanup ==
    /\ pc = "idle"
    /\ ic = NoConfig
    /\ all_pods = <<>>
    /\ dash = NoDash
    /\ locals = NoLocals
    /\ results = <<>>
    /\ raised = ""
    /\ events = <<>>
    /\ eval = [called |-> FALSE, ic |-> NoConfig, expected_count |-> 0,
               dash |-> NoDash, out |-> Verdict(FALSE, <<>>)]
    /\ agg = [called |-> FALSE, verdicts |-> <<>>, cut1 |-> 0, cut2 |-> 0,
              whole |-> Verdict(FALSE, <<>>), grouped |-> Verdict(FALSE, <<>>)]
    /\ hc = NoCount
    /\ rz = NoRightsize
    /\ \E configured \in SUBSET ServiceTriples :
         \E running \in {a \in SUBSET AppIds : Cardinality(a) <= MaxApps} :
            cl = [NoCleanup EXCEPT !.soa = configured, !.marathon = running]

notCleanup == <<checkVars, eval, agg, hc, rz>>

\* lines 37-41
GetLists ==
    /\ cl.pc = "start"
    /\ \E l \in Listings(cl.marathon) :
          cl' = [cl EXCEPT !.pc = "loop",
                           !.valid_app_list =
                               {compose_job_id(t[1], t[2], t[3]) : t \in cl.soa},
                           !.app_ids = l]
    /\ UNCHANGED notCleanup

\* the test of line 44 with the ids not in the valid list kept
IsOld_Inverted(app_id, valid_app_list) ==
    \E deployed_id \in valid_app_list : app_id = deployed_id

\* line 44: not any([app_id == deployed_id for deployed_id in valid_app_list])
IsOld(app_id, valid_app_list) ==
    ~(\E deployed_id \in valid_app_list : app_id = deployed_id)

\* lines 42-44: the next app id is looked at
CheckApp ==
    /\ cl.pc = "loop"
    /\ cl.idx <= Len(cl.app_ids)
    /\ LET app_id == cl.app_ids[cl.idx]
       IN  cl' = IF IsOld(app_id, cl.valid_app_list)
                 THEN [cl EXCEPT !.pc = "lock", !.examined = Append(@, app_id)]
                 ELSE [cl EXCEPT !.idx = @ + 1, !.examined = Append(@, app_id)]
    /\ UNCHANGED notCleanup

\* line 42: the list is exhausted
Finish ==
    /\ cl.pc = "loop"
    /\ cl.idx > Len(cl.app_ids)
    /\ cl' = [cl EXCEPT !.pc = "done"]
    /\ UNCHANGED notCleanup

\* the lock taken on the app id itself
LockTarget_WholeId(app_id) == app_id

\* line 47: the lock is that of the service instance
LockTarget(app_id) == remove_iteration_from_job_id(app_id)

\* lines 47-48 and 50-52: bounce_lock either is acquired or raises IOError,
\* which skips the app
AcquireLock ==
    /\ cl.pc = "lock"
    /\ LET app_id == cl.app_ids[cl.idx]
           srv_instance == LockTarget(app_id)
       IN  cl' = IF srv_instance \in cl.bouncing
                 THEN [cl EXCEPT !.pc = "loop", !.idx = @ + 1,
                                 !.skipped = @ \cup {app_id}]
                 ELSE [cl EXCEPT !.pc = "delete", !.held = srv_instance]
    /\ UNCHANGED notCleanup

\* line 49: client.delete_app(app_id) succeeds, or fails with an IOError or
\* with an error of marathon
DeleteApp ==
    /\ cl.pc = "delete"
    /\ \E outcome \in {"", "IOError", "MarathonError"} :
         LET app_id == cl.app_ids[cl.idx]
         IN  cl' = [cl EXCEPT
                      !.pc = "unlock",
                      !.exc = outcome,
                      !.marathon = IF outcome = "" THEN @ \ {app_id} ELSE @,
                      !.calls = Append(@, [app_id |-> app_id, held |-> cl.held,
                                           bouncing |-> cl.bouncing,
                                           deleted |-> outcome = ""])]
    /\ UNCHANGED notCleanup

\* lines 48 and 50-52: the with block is left, which releases the lock; an
\* IOError is caught and the loop goes on, any other exception leaves cleanup_apps
ReleaseLock ==
    /\ cl.pc = "unlock"
    /\ cl' = IF cl.exc \in {"", "IOError"}
             THEN [cl EXCEPT !.pc = "loop", !.idx = @ + 1, !.held = <<>>, !.exc = ""]
             ELSE [cl EXCEPT !.pc = "raised", !.held = <<>>, !.raised = cl.exc, !.exc = ""]
    /\ UNCHANGED notCleanup

\* a bounce of a service instance takes its lock
BounceBegin ==
    /\ \E srv_instance \in Services \X Instances :
          /\ srv_instance \notin cl.bouncing
          /\ cl.held # srv_instance
          /\ cl' = [cl EXCEPT !.bouncing = @ \cup {srv_instance}]
    /\ UNCHANGED notCleanup

\* the bounce is over and its lock released
BounceEnd ==
    /\ \E srv_instance \in cl.bouncing :
          cl' = [cl EXCEPT !.bouncing = @ \ {srv_instance}]
    /\ UNCHANGED notCleanup

NextCleanup ==
    \/ GetLists
    \/ CheckApp
    \/ Finish
    \/ AcquireLock
    \/ DeleteApp
    \/ ReleaseLock
    \/ BounceBegin
    \/ BounceEnd

SpecCleanup == InitCleanup /\ [][NextCleanup]_vars

(* ------------------------------------ healthy_flink_containers_cnt alone *)
\* the pods of one service instance, each with its flink-container-type
\* label, readiness and seconds alive
FlinkPods ==
    [service : {"svcA"}, type : ContainerTypes, ready : BOOLEAN,
     lifetime : {MinLifetimeSeconds - 1, MinLifetimeSeconds, MinLifetimeSeconds + 1}]

InitCnt ==
    /\ pc = "idle"
    /\ ic = NoConfig
    /\ all_pods = <<>>
    /\ dash = NoDash
    /\ locals = NoLocals
    /\ results = <<>>
    /\ raised = ""
    /\ events = <<>>
    /\ eval = [called |-> FALSE, ic |-> NoConfig, expected_count |-> 0,
               dash |-> NoDash, out |-> Verdict(FALSE, <<>>)]
    /\ agg = [called |-> FALSE, verdicts |-> <<>>, cut1 |-> 0, cut2 |-> 0,
              whole |-> Verdict(FALSE, <<>>), grouped |-> Verdict(FALSE, <<>>)]
    /\ cl = NoCleanup
    /\ rz = NoRightsize
    /\ hc \in [called : {FALSE}, si_pods : SeqsUpTo(FlinkPods, MaxPods),
               cnt : {NoCount.cnt}]

\* lines 121-123: the count is taken for each of the three container types
CntCall ==
    /\ ~hc.called
    /\ hc' = [hc EXCEPT !.called = TRUE,
                        !.cnt = [t \in ContainerTypes |->
                                    healthy_flink_containers_cnt(hc.si_pods, t)]]
    /\ UNCHANGED <<checkVars, eval, agg, cl, rz>>

NextCnt == CntCall

SpecCnt == InitCnt /\ [][NextCnt]_vars

(* ------------------------------------------- paasta_update_soa_memcpu *)
\* a python dict keeps its keys in insertion order: a sequence of items
ODictHas(d, k) == \E i \in 1 .. Len(d) : d[i].key = k

ODictGet(d, k) == d[CHOOSE i \in 1 .. Len(d) : d[i].key = k].value

ODictKeys(d) == {d[i].key : i \in 1 .. Len(d)}

\* d[k] = v: an existing key keeps its place and gets the new value
ODictSet(d, k, v) ==
    IF ODictHas(d, k)
    THEN [i \in 1 .. Len(d) |-> IF d[i].key = k THEN [key |-> k, value |-> v] ELSE d[i]]
    ELSE Append(d, [key |-> k, value |-> v])

RECURSIVE ODictUpdateFrom(_, _, _)
ODictUpdateFrom(d, other, i) ==
    IF i > Len(other) THEN d
    ELSE ODictUpdateFrom(ODictSet(d, other[i].key, other[i].value), other, i + 1)

\* dict.update(other)
ODictUpdate(d, other) == ODictUpdateFrom(d, other, 1)

\* the criteria of a row: "service cluster instance", as its words
Criteria == {<<"svcA", "c1", "main">>, <<"svcB", "c1", "main">>}

\* one line of a Splunk export: with a result of a criteria, or without result
Rows ==
    [has_result : {TRUE}, criteria : Criteria] \cup
      {[has_result |-> FALSE, criteria |-> <<"svcA", "c1", "main">>]}

\* lines 118-132: the entry made of a row
ServOf(row, resource_type) ==
    LET common == [f \in {"service", "cluster", "instance", "owner", "date",
                          "money", "project"} |->
                     CASE f = "service" -> row.criteria[1]
                       [] f = "cluster" -> row.criteria[2]
                       [] f = "instance" -> row.criteria[3]
                       [] f = "owner" -> "owner"
                       [] f = "date" -> "date"
                       [] f = "money" -> "0"
                       [] OTHER -> "Unavailable"]
        own == IF resource_type = "cpu"
               THEN [f \in {"cpus", "old_cpus"} |->
                       IF f = "cpus" THEN "suggested_cpus" ELSE "current_cpus"]
               ELSE [f \in {"mem", "old_mem"} |->
                       IF f = "mem" THEN "suggested_mem" ELSE "mem"]
    IN  [f \in DOMAIN common \cup DOMAIN own |->
            IF f \in DOMAIN own THEN own[f] ELSE common[f]]

RECURSIVE ReportFrom(_, _, _, _)
\* lines 113-135: the loop over the rows, from row i on
ReportFrom(resp, resource_type, i, services_to_update) ==
    IF i > Len(resp) THEN [raised |-> "", report |-> services_to_update]
    ELSE IF ~resp[i].has_result THEN [raised |-> "ValueError", report |-> <<>>]
    ELSE ReportFrom(resp, resource_type, i + 1,
                    ODictSet(services_to_update, resp[i].criteria,
                             ServOf(resp[i], resource_type)))

\* lines 101-135, given what Splunk answers
get_report_from_splunk(resp, resource_type) == ReportFrom(resp, resource_type, 1, <<>>)

RzArgs ==
    [ticket : BOOLEAN, jira_creds : BOOLEAN, cpu_report_csv : BOOLEAN,
     mem_report_csv : BOOLEAN, bulk : BOOLEAN, YELPSOA_DIR : BOOLEAN]

\* parse_args has returned; Splunk will answer each export that is asked for
InitRz ==
    /\ pc = "idle"
    /\ ic = NoConfig
    /\ all_pods = <<>>
    /\ dash = NoDash
    /\ locals = NoLocals
    /\ results = <<>>
    /\ raised = ""
    /\ events = <<>>
    /\ eval = [called |-> FALSE, ic |-> NoConfig, expected_count |-> 0,
               dash |-> NoDash, out |-> Verdict(FALSE, <<>>)]
    /\ agg = [called |-> FALSE, verdicts |-> <<>>, cut1 |-> 0, cut2 |-> 0,
              whole |-> Verdict(FALSE, <<>>), grouped |-> Verdict(FALSE, <<>>)]
    /\ cl = NoCleanup
    /\ hc = NoCount
    /\ \E a \in RzArgs :
         \E c \in (IF a.cpu_report_csv THEN SeqsUpTo(Rows, MaxRows) ELSE {<<>>}) :
           \E m \in (IF a.mem_report_csv THEN SeqsUpTo(Rows, MaxRows) ELSE {<<>>}) :
              rz = [NoRightsize EXCEPT !.pc = "args", !.args = a,
                                       !.cpu_resp = c, !.mem_resp = m]

notRz == <<checkVars, eval, agg, cl, hc>>

Call(op, key, cpus, mem) == [op |-> op, key |-> key, cpus |-> cpus, mem |-> mem]

\* lines 380-384
CheckTicket ==
    /\ rz.pc = "args"
    /\ rz' = IF rz.args.ticket /\ ~rz.args.jira_creds
             THEN [rz EXCEPT !.pc = "raised", !.raised = "ValueError"]
             ELSE [rz EXCEPT !.pc = "reports"]
    /\ UNCHANGED notRz

\* the test of line 386 written without its parentheses
NoReportGiven_Unparenthesised(args) == (~args.cpu_report_csv) /\ args.mem_report_csv

\* line 386: not (args.cpu_report_csv or args.mem_report_csv)
NoReportGiven(args) == ~(args.cpu_report_csv \/ args.mem_report_csv)

\* lines 386-389
CheckReports ==
    /\ rz.pc = "reports"
    /\ rz' = IF NoReportGiven(rz.args)
             THEN [rz EXCEPT !.pc = "raised", !.raised = "ValueError"]
             ELSE [rz EXCEPT !.pc = "cpu", !.combined_report = <<>>]
    /\ UNCHANGED notRz

\* lines 390-391
FetchCpu ==
    /\ rz.pc = "cpu"
    /\ rz' = IF ~rz.args.cpu_report_csv THEN [rz EXCEPT !.pc = "mem"]
             ELSE LET r == get_report_from_splunk(rz.cpu_resp, "cpu")
                      log == Append(rz.log, Call("splunk", <<"cpu">>, "", ""))
                  IN  IF r.raised # ""
                      THEN [rz EXCEPT !.pc = "raised", !.raised = r.raised, !.log = log]
                      ELSE [rz EXCEPT !.pc = "mem", !.log = log,
                                      !.cpu_report = r.report,
                                      !.combined_report = ODictUpdate(@, r.report)]
    /\ UNCHANGED notRz

\* lines 392-394
FetchMem ==
    /\ rz.pc = "mem"
    /\ rz' = IF ~rz.args.mem_report_csv THEN [rz EXCEPT !.pc = "dispatch"]
             ELSE LET r == get_report_from_splunk(rz.mem_resp, "mem")
                      log == Append(rz.log, Call("splunk", <<"mem">>, "", ""))
                  IN  IF r.raised # ""
                      THEN [rz EXCEPT !.pc = "raised", !.raised = r.raised, !.log = log]
                      ELSE [rz EXCEPT !.pc = "dispatch", !.log = log,
                                      !.mem_report = r.report,
                                      !.combined_report = ODictUpdate(@, r.report)]
    /\ UNCHANGED notRz

\* lines 396-398: a bulk run in the directory that was handed over
UseGivenDir ==
    /\ rz.pc = "dispatch"
    /\ rz.args.bulk
    /\ rz.args.YELPSOA_DIR
    /\ rz' = [rz EXCEPT !.pc = "bulk"]
    /\ UNCHANGED notRz

\* lines 399-401: clone is handed the TemporaryDirectory object; git clone is
\* started, or the subprocess call refuses its argument
CloneIntoTempdir ==
    /\ rz.pc = "dispatch"
    /\ rz.args.bulk
    /\ ~rz.args.YELPSOA_DIR
    /\ \E refused \in BOOLEAN :
          rz' = IF refused
                THEN [rz EXCEPT !.pc = "raised", !.raised = "TypeError"]
                ELSE [rz EXCEPT !.pc = "bulk",
                                !.log = Append(@, Call("clone", <<>>, "", ""))]
    /\ UNCHANGED notRz

\* lines 345-346: serv.get(field, None)
ServGet(serv, field) == IF field \in DOMAIN serv THEN serv[field] ELSE "None"

\* lines 337-348
bulk_rightsize(report) ==
    <<Call("branch", <<>>, "", "")>>
      \o [i \in 1 .. Len(report) |->
            Call("edit", report[i].key, ServGet(report[i].value, "cpus"),
                 ServGet(report[i].value, "mem"))]
      \o <<Call("commit", <<>>, "", "")>>

\* line 403
BulkRightsize ==
    /\ rz.pc = "bulk"
    /\ rz' = [rz EXCEPT !.pc = "done", !.log = @ \o bulk_rightsize(rz.combined_report)]
    /\ UNCHANGED notRz

\* lines 405-406 and 350-351: individual_rightsize reads the names cpu_report
\* and args, which no scope defines
IndividualRightsize ==
    /\ rz.pc = "dispatch"
    /\ ~rz.args.bulk
    /\ rz' = [rz EXCEPT !.pc = "raised", !.raised = "NameError"]
    /\ UNCHANGED notRz

NextRz ==
    \/ CheckTicket
    \/ CheckReports
    \/ FetchCpu
    \/ FetchMem
    \/ UseGivenDir
    \/ CloneIntoTempdir
    \/ BulkRightsize
    \/ IndividualRightsize

SpecRz == InitRz /\ [][NextRz]_vars

(* ================================================================ claims *)
\* the observed count of an observation: what the dashboard reports, 0 when
\* the overview has no "taskmanagers"
Observed(d) == IF "taskmanagers" \in DOMAIN d.overview THEN d.overview["taskmanagers"] ELSE 0

\* the call under study has returned or raised, and the dashboard answered
Evaluated_ok == eval.called /\ eval.dash.kind = "ok"

\* C1: with expected_count > 0, observed_count >= 0 and a threshold in 0..100,
\* check_under_registered_taskmanagers returns unhealthy exactly when
\* observed * 100 < expected * threshold; at equality it returns healthy.
C1_UnderIffBelowThreshold ==
    (/\ Evaluated_ok
     /\ eval.expected_count > 0
     /\ Observed(eval.dash) >= 0
     /\ eval.ic.crit \in 0 .. 100)
      => /\ eval.out.raised = ""
         /\ eval.out.unhealthy <=>
              (Observed(eval.dash) * 100 < eval.expected_count * eval.ic.crit)

\* the exact boundary: 1 of 2 at a threshold of 50 percent is healthy
C1_Witness ==
    /\ Evaluated_ok
    /\ eval.expected_count = 2
    /\ Observed(eval.dash) = 1
    /\ eval.ic.crit = 50
    /\ eval.out.raised = ""
    /\ ~eval.out.unhealthy

\* C2: with expected_count = 0 the verdict is healthy for every observed
\* count >= 0 and every threshold in 0..100.
C2_ZeroExpectedIsHealthy ==
    (/\ Evaluated_ok
     /\ eval.expected_count = 0
     /\ Observed(eval.dash) >= 0
     /\ eval.ic.crit \in 0 .. 100)
      => eval.out.raised = "" /\ ~eval.out.unhealthy

C2_Witness ==
    /\ Evaluated_ok
    /\ eval.expected_count = 0
    /\ Observed(eval.dash) = 1
    /\ eval.ic.crit = 100
    /\ eval.out.raised = ""
    /\ ~eval.out.unhealthy

\* C3: with a threshold of 0 the verdict is healthy for every expected
\* count >= 0 and every observed count >= 0.
C3_ZeroThresholdIsHealthy ==
    (/\ Evaluated_ok
     /\ eval.ic.crit = 0
     /\ eval.expected_count >= 0
     /\ Observed(eval.dash) >= 0)
      => eval.out.raised = "" /\ ~eval.out.unhealthy

C3_Witness ==
    /\ Evaluated_ok
    /\ eval.ic.crit = 0
    /\ eval.expected_count = 2
    /\ Observed(eval.dash) = 0
    /\ "taskmanagers" \in DOMAIN eval.dash.overview
    /\ eval.out.raised = ""
    /\ ~eval.out.unhealthy

\* the four messages with exactly one delimiter between neighbours
FourJoined(rs) ==
    rs[1].output \o <<DELIMITER>> \o rs[2].output \o <<DELIMITER>>
      \o rs[3].output \o <<DELIMITER>> \o rs[4].output

\* C4: the event of a finished check carries the four sub-check messages in
\* the order supervisor, jobmanager, taskmanager, registered taskmanagers,
\* joined by the one delimiter, and is CRITICAL exactly when one of the four
\* verdicts is unhealthy.
C4_AggregateIsOrAndOrderedJoin ==
    pc = "done" =>
      /\ Len(results) = 4
      /\ Len(events) = 1
      /\ events[1].output = FourJoined(results)
      /\ (events[1].status = "CRITICAL") <=>
           (results[1].unhealthy \/ results[2].unhealthy
              \/ results[3].unhealthy \/ results[4].unhealthy)

\* a finished check whose four messages differ and whose verdicts are mixed
C4_Witness ==
    /\ pc = "done"
    /\ Len(results) = 4
    /\ \A i, j \in 1 .. 4 : i # j => results[i].output # results[j].output
    /\ results[1].unhealthy
    /\ ~results[2].unhealthy
    /\ events[1].status = "CRITICAL"

\* C5: aggregating the empty verdict sequence gives healthy and the empty message.
C5_EmptyAggregate ==
    (agg.called /\ agg.verdicts = <<>>)
      => /\ ~agg.whole.unhealthy
         /\ agg.whole.output = <<>>
         /\ agg.whole.raised = ""

C5_Witness == agg.called /\ agg.verdicts = <<>> /\ Len(agg.whole.output) = 0

\* C6: the boolean of the aggregate of the group aggregates equals the
\* boolean of the aggregate of the whole sequence, empty groups included.
C6_GroupingIndependent ==
    agg.called => (agg.grouped.unhealthy <=> agg.whole.unhealthy)

\* an unhealthy verdict in the last group, the first group non-empty, the
\* middle group empty
C6_Witness ==
    /\ agg.called
    /\ agg.cut1 = 1
    /\ agg.cut2 = 1
    /\ Len(agg.verdicts) = 2
    /\ ~agg.verdicts[1].unhealthy
    /\ agg.verdicts[2].unhealthy
    /\ agg.whole.unhealthy
    /\ agg.grouped.unhealthy

UnavailablePrefix(c) ==
    <<"Dashboard of service ", c.service, ".", c.instance, " is not available!\n(">>

\* C8: when the dashboard raises ValueError, the registered-taskmanagers
\* sub-check does not raise: its verdict is unhealthy with a message saying
\* the dashboard is not available, and the check that reached it sends one
\* CRITICAL event.
C8_DashboardFailureIsCritical ==
    dash.kind = "ValueError" =>
      /\ pc = "raised" => Len(results) < 3
      /\ Len(results) = 4 =>
           /\ results[4].unhealthy
           /\ SubSeq(results[4].output, 1, 5) = UnavailablePrefix(ic)
      /\ pc = "done" =>
           /\ Len(events) = 1
           /\ events[1].status = "CRITICAL"

\* the dashboard failure alone makes the event CRITICAL
C8_Witness ==
    /\ pc = "done"
    /\ dash.kind = "ValueError"
    /\ Len(results) = 4
    /\ ~results[1].unhealthy
    /\ ~results[2].unhealthy
    /\ ~results[3].unhealthy
    /\ results[4].unhealthy
    /\ events[1].status = "CRITICAL"

\* C10: an invocation has sent no event before it returns and exactly one
\* when it has returned; then all four sub-checks have been evaluated, the
\* status is CRITICAL iff some sub-check result is unhealthy and OK
\* otherwise, and the output is the aggregated message.
C10_OneEventAfterAllSubChecks ==
    /\ pc # "done" => events = <<>>
    /\ pc = "done" =>
         /\ Len(events) = 1
         /\ Len(results) = 4
         /\ events[1].status \in {"CRITICAL", "OK"}
         /\ (events[1].status = "CRITICAL") <=> (\E i \in 1 .. 4 : results[i].unhealthy)
         /\ events[1].output = Aggregate(results).output

\* a returned invocation with four healthy sub-checks and one OK event
C10_Witness ==
    /\ pc = "done"
    /\ Len(events) = 1
    /\ Len(results) = 4
    /\ \A i \in 1 .. 4 : ~results[i].unhealthy
    /\ events[1].status = "OK"

\* C11: client.delete_app is called only with app ids that list_apps
\* returned and that equal no job id composed from the configured (service,
\* instance, iteration) list, and with no app id twice.
C11_OnlyOldListedAppsDeletedOnce ==
    \A i \in 1 .. Len(cl.calls) :
       LET app_id == cl.calls[i].app_id
       IN  /\ \A t \in cl.soa : app_id # <<t[1], t[2], t[3]>>
           /\ \E k \in 1 .. Len(cl.app_ids) : cl.app_ids[k] = app_id
           /\ \A j \in 1 .. Len(cl.calls) : j # i => cl.calls[j].app_id # app_id

\* a finished cleanup that deleted one of two listed apps and kept the
\* configured one
C11_Witness ==
    /\ cl.pc = "done"
    /\ Len(cl.app_ids) = 2
    /\ Len(cl.calls) = 1
    /\ cl.calls[1].deleted
    /\ \E k \in 1 .. 2 :
          /\ cl.app_ids[k] \in cl.marathon
          /\ \E t \in cl.soa : cl.app_ids[k] = <<t[1], t[2], t[3]>>

\* the service instance of an app id: the id without its iteration
SrvInstance(app_id) == <<app_id[1], app_id[2]>>

\* C12: every delete_app call is made while the cleanup holds the bounce
\* lock of the app's service instance and no bounce holds it; an app whose
\* lock could not be acquired is not deleted; and a failed acquisition never
\* ends the loop: a cleanup that finished has looked at every listed app id,
\* and only an error of delete_app other than IOError leaves cleanup_apps.
C12_DeleteOnlyUnderBounceLock ==
    /\ \A i \in 1 .. Len(cl.calls) :
          /\ cl.calls[i].held = SrvInstance(cl.calls[i].app_id)
          /\ cl.calls[i].held \notin cl.calls[i].bouncing
    /\ cl.pc = "delete" =>
          /\ cl.held = SrvInstance(cl.app_ids[cl.idx])
          /\ cl.held \notin cl.bouncing
    /\ \A i \in 1 .. Len(cl.calls) : cl.calls[i].app_id \notin cl.skipped
    /\ cl.skipped \subseteq cl.marathon
    /\ cl.pc = "done" => cl.examined = cl.app_ids
    /\ cl.pc = "raised" =>
          /\ cl.raised = "MarathonError"
          /\ Len(cl.calls) > 0
          /\ ~cl.calls[Len(cl.calls)].deleted

\* the first app was skipped because its service instance was being bounced,
\* and the loop went on to delete the second
C12_Witness ==
    /\ cl.pc = "done"
    /\ Len(cl.app_ids) = 2
    /\ cl.app_ids[1] \in cl.skipped
    /\ cl.examined = cl.app_ids
    /\ Len(cl.calls) = 1
    /\ cl.calls[1].app_id = cl.app_ids[2]
    /\ cl.calls[1].deleted

RECURSIVE CountWhere(_, _, _)
\* how many of the first n pods are of the type, ready and alive longer
\* than 60 seconds
CountWhere(pods, n, t) ==
    IF n = 0 THEN 0
    ELSE CountWhere(pods, n - 1, t)
           + (IF pods[n].type = t /\ pods[n].ready /\ pods[n].lifetime > 60 THEN 1 ELSE 0)

\* C13: healthy_flink_containers_cnt(si_pods, t) is the number of pods of
\* si_pods with label t that are ready and alive strictly more than 60
\* seconds; the counts of the three types together never exceed len(si_pods),
\* and pods that are not ready or not older than 60 seconds add nothing.
C13_CountsHealthyPodsOfType ==
    hc.called =>
      /\ \A t \in ContainerTypes : hc.cnt[t] = CountWhere(hc.si_pods, Len(hc.si_pods), t)
      /\ hc.cnt["supervisor"] + hc.cnt["jobmanager"] + hc.cnt["taskmanager"]
           <= Len(hc.si_pods)
      /\ (\A i \in 1 .. Len(hc.si_pods) :
             ~hc.si_pods[i].ready \/ hc.si_pods[i].lifetime <= 60)
           => \A t \in ContainerTypes : hc.cnt[t] = 0

\* two ready taskmanagers, one alive 60 seconds and one 61: only one counts
C13_Witness ==
    /\ hc.called
    /\ Len(hc.si_pods) = 2
    /\ \A i \in 1 .. 2 : hc.si_pods[i].type = "taskmanager" /\ hc.si_pods[i].ready
    /\ hc.si_pods[1].lifetime = 60
    /\ hc.si_pods[2].lifetime = 61
    /\ hc.cnt["taskmanager"] = 1
    /\ hc.cnt["jobmanager"] = 0

\* both reports were asked for and both exports have been read
BothReportsRead ==
    /\ rz.args.cpu_report_csv
    /\ rz.args.mem_report_csv
    /\ rz.pc \in {"dispatch", "bulk", "done"}

\* C14: with a CPU and a memory report, the combined report has exactly one
\* entry for every criteria of either report, and the entry of a criteria of
\* both reports carries cpus and old_cpus of the CPU report and mem and
\* old_mem of the memory report.
C14_CombinedReportCarriesBoth ==
    BothReportsRead =>
      /\ ODictKeys(rz.combined_report)
           = ODictKeys(rz.cpu_report) \cup ODictKeys(rz.mem_report)
      /\ \A i, j \in 1 .. Len(rz.combined_report) :
            i # j => rz.combined_report[i].key # rz.combined_report[j].key
      /\ \A k \in ODictKeys(rz.cpu_report) \cap ODictKeys(rz.mem_report) :
            LET serv == ODictGet(rz.combined_report, k)
            IN  /\ {"cpus", "old_cpus", "mem", "old_mem"} \subseteq DOMAIN serv
                /\ serv["cpus"] = ODictGet(rz.cpu_report, k)["cpus"]
                /\ serv["old_cpus"] = ODictGet(rz.cpu_report, k)["old_cpus"]
                /\ serv["mem"] = ODictGet(rz.mem_report, k)["mem"]
                /\ serv["old_mem"] = ODictGet(rz.mem_report, k)["old_mem"]

\* the arguments that main refuses
RefusedArgs ==
    \/ rz.args.ticket /\ ~rz.args.jira_creds
    \/ ~rz.args.cpu_report_csv /\ ~rz.args.mem_report_csv

\* C15: when tickets are asked for without JIRA credentials, or neither
\* report is given, main gets no further than its two checks, leaves by
\* ValueError only, and has made no Splunk request, clone, branch, edit,
\* commit or review.
C15_ArgumentsCheckedBeforeAnyAction ==
    (rz.pc # "idle" /\ RefusedArgs) =>
      /\ rz.log = <<>>
      /\ rz.pc \in {"args", "reports", "raised"}
      /\ rz.pc = "raised" => rz.raised = "ValueError"
      /\ rz.combined_report = <<>>

\* a bulk run with JIRA credentials but no report has been refused
C15_Witness ==
    /\ rz.pc = "raised"
    /\ rz.raised = "ValueError"
    /\ rz.args.ticket
    /\ rz.args.jira_creds
    /\ rz.args.bulk
    /\ ~rz.args.cpu_report_csv
    /\ ~rz.args.mem_report_csv
    /\ rz.log = <<>>

====
